---- MODULE Spec2Model ----
(***************************************************************************)
(* Model of backend/controllers/material_controller.py:                    *)
(* generate_material_image, the handler of                                 *)
(* POST /api/projects/<project_id>/materials/generate.                     *)
(*                                                                         *)
(* Every handling unit r runs the handler on one request at a time.  The   *)
(* only state the units share is the upload folder, in which each request  *)
(* makes its temporary directory.  The collaborators (project lookup,      *)
(* AIService, FileService, the database session) are the environment:      *)
(* each call returns or raises, chosen nondeterministically.               *)
(*                                                                         *)
(* Text is a sequence of one-character strings.  A path is a sequence of   *)
(* segments; the empty path stands for Python's None.                      *)
(***************************************************************************)
EXTENDS Naturals, Sequences, FiniteSets

\* ------------------------------------------------------------------ bounds

\* Handling units (threads or workers of the server).
NumReqs == 2
\* Names tempfile.mkdtemp can draw for a directory in the upload folder.
NumDirs == 2
\* Longest list of files under the form key 'extra_images'.
MaxExtras == 2

Reqs == 1..NumReqs
DirNames == 1..NumDirs

\* Whitespace, as str.strip() and str.split() see it.
WS == {" ", "\t"}

\* Prompts the client may send: empty, blank, text, padded text, two words.
Prompts ==
    { <<>>, <<" ">>, <<"a">>, <<" ", "a", "\t">>, <<"a", " ", "b">> }

\* Declared filenames of uploads: plain, plain, traversal onto a plain name,
\* traversal only.  The empty filename is what a browser sends for a file
\* input left empty.
Filenames ==
    { <<"a">>, <<"b">>, <<".", ".", "/", "a">>, <<".", ".">> }

ProjectIds == {"p1", "p2"}
\* The projects table: Project.query.get finds these ids.
Projects == {"p1"}

\* What FileService.save_material_image names the stored image.
MaterialNames == {"m1.png", "m2.png"}

BoundedSeq(S, n) == UNION {[1..k -> S] : k \in 0..n}

\* ------------------------------------------------------------- text helpers

RECURSIVE LStripOf(_, _)
LStripOf(s, cs) ==
    IF s # <<>> /\ Head(s) \in cs THEN LStripOf(Tail(s), cs) ELSE s

RECURSIVE RStripOf(_, _)
RStripOf(s, cs) ==
    IF s # <<>> /\ s[Len(s)] \in cs
    THEN RStripOf(SubSeq(s, 1, Len(s) - 1), cs)
    ELSE s

\* A plausible slip: only the leading whitespace is removed.
strip_leading_only(s) == LStripOf(s, WS)

\* str.strip(): whitespace removed at both ends, the inside untouched.
strip(s) == RStripOf(LStripOf(s, WS), WS)

\* werkzeug.utils.secure_filename, step 1: path separators become spaces.
ReplaceSep(s) == [i \in 1..Len(s) |-> IF s[i] = "/" THEN " " ELSE s[i]]

\* step 2: "_".join(filename.split())
RECURSIVE JoinWords(_)
JoinWords(s) ==
    IF s = <<>> THEN <<>>
    ELSE IF Head(s) \in WS THEN <<"_">> \o JoinWords(LStripOf(s, WS))
    ELSE <<Head(s)>> \o JoinWords(Tail(s))

SplitJoin(s) == JoinWords(strip(s))

\* step 3: _filename_ascii_strip_re removes what is not [A-Za-z0-9_.-]
SafeChar(c) == c \in {"a", "b", ".", "_", "-"}
AsciiStrip(s) == SelectSeq(s, SafeChar)

\* step 4: .strip("._")
secure_filename(filename) ==
    LET t == AsciiStrip(SplitJoin(ReplaceSep(filename)))
    IN  RStripOf(LStripOf(t, {".", "_"}), {".", "_"})

\* pathlib: temp_dir / name.  Joining the empty name gives temp_dir itself.
JoinPath(dir, name) == IF name = <<>> THEN dir ELSE Append(dir, name)

\* A plausible slip: the first segment is taken (relative.parts[0]).
PathName_first(p) == IF p = <<>> THEN "" ELSE p[1]

\* Path(relative_path).name: the final segment.
PathName(p) == IF p = <<>> THEN "" ELSE p[Len(p)]

\* --------------------------------------------------------------- requests

NoFile == [has |-> FALSE, filename |-> <<>>]
Upload(f) == [has |-> TRUE, filename |-> f]

\* Bodies sent as application/json.  kind says what request.get_json()
\* meets: a body that does not parse, a falsy value (null, [], {}, 0), a
\* truthy value that is no object, or an object whose 'prompt' is absent,
\* null, a number or a string.
JsonKinds ==
    {"malformed", "falsy", "array", "no_prompt", "null_prompt", "number_prompt"}

JsonBodies ==
    {[kind |-> k, prompt |-> <<>>] : k \in JsonKinds}
        \cup {[kind |-> "string_prompt", prompt |-> s] : s \in Prompts}

NoJson == [kind |-> "none", prompt |-> <<>>]
NoField == [has |-> FALSE, s |-> <<>>]
Field(s) == [has |-> TRUE, s |-> s]

JsonRequests ==
    {[project_id |-> p, is_json |-> TRUE, json |-> b, form_prompt |-> NoField,
      ref_image |-> NoFile, extra_images |-> <<>>] :
        p \in ProjectIds, b \in JsonBodies}

FormRequests ==
    {[project_id |-> p, is_json |-> FALSE, json |-> NoJson, form_prompt |-> f,
      ref_image |-> g, extra_images |-> e] :
        p \in ProjectIds,
        f \in {NoField} \cup {Field(s) : s \in Prompts},
        g \in {NoFile, Upload(<<>>)} \cup {Upload(n) : n \in Filenames},
        e \in BoundedSeq({Upload(<<>>)} \cup {Upload(n) : n \in Filenames},
                         MaxExtras)}

Requests == JsonRequests \cup FormRequests

NoRequest ==
    [project_id |-> "", is_json |-> FALSE, json |-> NoJson,
     form_prompt |-> NoField, ref_image |-> NoFile, extra_images |-> <<>>]

\* The request of the runs in which several units work at once: every unit
\* gets the same uploads, so that units sharing a directory would collide.
ConcRequests ==
    { [project_id |-> "p1", is_json |-> FALSE, json |-> NoJson,
       form_prompt |-> Field(<<"a">>), ref_image |-> Upload(<<"a">>),
       extra_images |-> <<Upload(<<"b">>)>>] }

\* ------------------------------------------------------------------ state

VARIABLES
    upload_folder,  \* the paths that exist under UPLOAD_FOLDER
    pc,             \* where each unit stands in the handler
    req,            \* the request each unit is handling
    ctx,            \* the handler's local variables
    log,            \* the calls each request made, in order (history)
    response        \* what the handler returned

vars == <<upload_folder, pc, req, ctx, log, response>>

NoResponse ==
    [status |-> 0, code |-> "", message |-> "", image_url |-> <<>>,
     relative_path |-> <<>>]

\* The locals of generate_material_image before its first statement.
NoCtx ==
    [project |-> "unset", prompt |-> <<>>, ref_file |-> NoFile,
     extra_files |-> <<>>, temp_dir |-> <<>>, ref_path |-> <<>>,
     additional_ref_images |-> <<>>, i |-> 1, image |-> "None",
     relative_path |-> <<>>, image_url |-> <<>>,
     \* how control entered the finally block: a pending return value or a
     \* propagating exception
     pending |-> "", retval |-> NoResponse, e |-> "",
     \* history: the arguments generate_image was called with
     gen_prompt |-> <<>>, gen_ref |-> <<>>, gen_extra |-> <<>>,
     gen_extra_none |-> FALSE]

Init ==
    /\ upload_folder = {}
    /\ pc = [r \in Reqs |-> "idle"]
    /\ req = [r \in Reqs |-> NoRequest]
    /\ ctx = [r \in Reqs |-> NoCtx]
    /\ log = [r \in Reqs |-> <<>>]
    /\ response = [r \in Reqs |-> NoResponse]

\* utils: the response envelopes.
error_response(code, msg, status) ==
    [NoResponse EXCEPT !.status = status, !.code = code, !.message = msg]
not_found(what) == error_response("NOT_FOUND", what, 404)
bad_request(msg) == error_response("INVALID_REQUEST", msg, 400)
success_response(url, rel) ==
    [NoResponse EXCEPT !.status = 200, !.image_url = url, !.relative_path = rel]

\* The handler returns resp outside the inner try.
Return(r, resp) ==
    /\ pc' = [pc EXCEPT ![r] = "responded"]
    /\ response' = [response EXCEPT ![r] = resp]

\* An exception leaves the outer try body: line 110 catches it.
Raise(r, c, name) ==
    /\ pc' = [pc EXCEPT ![r] = "except"]
    /\ ctx' = [ctx EXCEPT ![r] = [c EXCEPT !.e = name]]
    /\ UNCHANGED response

Logged(r, evs) == log' = [log EXCEPT ![r] = @ \o evs]

\* ------------------------------------------------- the code's conditions

\* A plausible slip: the test is made on the id, which is never empty.
ProjectMissing_on_id(project) == project = ""

\* line 29: if not project
ProjectMissing(project) == project = "absent"

\* A plausible slip: "prompt is None", which no string satisfies.
PromptMissing_is_none(prompt) == FALSE

\* line 45: if not prompt
PromptMissing(prompt) == prompt = <<>>

\* A plausible slip: only the presence of the field is tested.
FilePresent_field_only(file) == file.has

\* lines 60 and 68: the file was sent and has a filename (a FileStorage is
\* falsy when its filename is empty).
FilePresent(file) == file.has /\ file.filename # <<>>

\* A plausible slip: "image is False", which None does not satisfy.
ImageMissing_is_false(image) == image = "False"

\* line 84: if not image
ImageMissing(image) == image = "None"

\* lines 34-35: data = request.get_json() or {}; data.get('prompt', '').strip()
\* The result is the prompt, or the exception the two lines raise.
JsonPrompt(body) ==
    CASE body.kind = "malformed" -> [e |-> "BadRequest", prompt |-> <<>>]
      [] body.kind = "falsy" -> [e |-> "", prompt |-> strip(<<>>)]
      [] body.kind = "array" -> [e |-> "AttributeError", prompt |-> <<>>]
      [] body.kind = "no_prompt" -> [e |-> "", prompt |-> strip(<<>>)]
      [] body.kind = "null_prompt" -> [e |-> "AttributeError", prompt |-> <<>>]
      [] body.kind = "number_prompt" -> [e |-> "AttributeError", prompt |-> <<>>]
      [] OTHER -> [e |-> "", prompt |-> strip(body.prompt)]

\* lines 39-40: (data.get('prompt') or '').strip()
FormPrompt(field) ==
    [e |-> "", prompt |-> strip(IF field.has THEN field.s ELSE <<>>)]

\* A plausible slip: a directory name built without looking at what exists.
FreshDirs_unchecked(folder) == DirNames

\* line 55: the names tempfile.mkdtemp may give: those of no existing entry.
FreshDirs(folder) == {d \in DirNames : <<d>> \notin folder}

\* FileStorage.save(dst) opens dst for writing: dst must not be a directory
\* and its parent must exist.
CanWrite(folder, dst) ==
    /\ Len(dst) = 2
    /\ <<dst[1]>> \in folder

\* A plausible slip: the files are removed and the directory is left.
rmtree_files_only(folder, dir) ==
    {p \in folder :
        ~(Len(p) > Len(dir) /\ SubSeq(p, 1, Len(dir)) = dir)}

\* line 108: shutil.rmtree(temp_dir): the directory and all below it.
rmtree(folder, dir) ==
    {p \in folder : ~(Len(p) >= Len(dir) /\ SubSeq(p, 1, Len(dir)) = dir)}

\* FileService.get_file_url(project_id, 'materials', filename)
get_file_url(project_id, category, filename) ==
    <<"files", project_id, category, filename>>

\* ----------------------------------------------------------------- steps

SetCtx(r, c) == ctx' = [ctx EXCEPT ![r] = c]

\* Control enters the finally block (line 105) with a return value pending.
FinallyReturning(r, c, resp) ==
    /\ pc' = [pc EXCEPT ![r] = "finally"]
    /\ SetCtx(r, [c EXCEPT !.pending = "return", !.retval = resp])
    /\ UNCHANGED response

\* Control enters the finally block with an exception propagating.
FinallyRaising(r, c, name) ==
    /\ pc' = [pc EXCEPT ![r] = "finally"]
    /\ SetCtx(r, [c EXCEPT !.pending = "raise", !.e = name])
    /\ UNCHANGED response

Goto(r, c, label) ==
    /\ pc' = [pc EXCEPT ![r] = label]
    /\ SetCtx(r, c)
    /\ UNCHANGED response

\* A request reaches a free handling unit: the units being alike, the
\* dispatcher takes the first free one.
Receive(r, q) ==
    /\ pc[r] = "idle"
    /\ \A o \in Reqs : o < r => pc[o] # "idle"
    /\ pc' = [pc EXCEPT ![r] = "lookup"]
    /\ req' = [req EXCEPT ![r] = q]
    /\ UNCHANGED <<upload_folder, ctx, log, response>>

\* One request at a time: a unit takes any request once every other unit
\* has sent its response.
Arrive(r) ==
    /\ \A o \in Reqs : pc[o] = "idle"
    /\ \E q \in Requests : Receive(r, q)

\* Requests arrive while others are in flight.
ArriveConcurrent(r) == \E q \in ConcRequests : Receive(r, q)

\* lines 28-30
Lookup(r) ==
    /\ pc[r] = "lookup"
    /\ UNCHANGED <<upload_folder, req>>
    /\ \/ LET project ==
                 IF req[r].project_id \in Projects THEN "found" ELSE "absent"
              c == [ctx[r] EXCEPT !.project = project]
          IN  /\ Logged(r, <<"lookup">>)
              /\ IF ProjectMissing(project)
                 THEN Return(r, not_found("Project")) /\ SetCtx(r, c)
                 ELSE Goto(r, c, "parse")
       \/ /\ Logged(r, <<"lookup", "raise">>)
          /\ Raise(r, ctx[r], "OperationalError")

\* lines 33-43
Parse(r) ==
    /\ pc[r] = "parse"
    /\ UNCHANGED <<upload_folder, req>>
    /\ LET q == req[r]
           got == IF q.is_json THEN JsonPrompt(q.json)
                  ELSE FormPrompt(q.form_prompt)
           c == [ctx[r] EXCEPT
                   !.prompt = got.prompt,
                   !.ref_file = IF q.is_json THEN NoFile ELSE q.ref_image,
                   !.extra_files = IF q.is_json THEN <<>> ELSE q.extra_images]
       IN  IF got.e # ""
           THEN Logged(r, <<"parse", "raise">>) /\ Raise(r, ctx[r], got.e)
           ELSE Logged(r, <<"parse">>) /\ Goto(r, c, "validate")

\* lines 45-46
Validate(r) ==
    /\ pc[r] = "validate"
    /\ UNCHANGED <<upload_folder, req, log>>
    /\ IF PromptMissing(ctx[r].prompt)
       THEN Return(r, bad_request("prompt is required")) /\ UNCHANGED ctx
       ELSE Goto(r, ctx[r], "init")

\* lines 49-53: AIService(...), FileService(...) from current_app.config
InitServices(r) ==
    /\ pc[r] = "init"
    /\ UNCHANGED <<upload_folder, req>>
    /\ \/ Logged(r, <<"init">>) /\ Goto(r, ctx[r], "mkdtemp")
       \/ Logged(r, <<"init", "raise">>) /\ Raise(r, ctx[r], "KeyError")

\* line 55
Mkdtemp(r) ==
    /\ pc[r] = "mkdtemp"
    /\ UNCHANGED req
    /\ \/ \E d \in FreshDirs(upload_folder) :
             /\ upload_folder' = upload_folder \cup {<<d>>}
             /\ Logged(r, <<"mkdtemp">>)
             /\ Goto(r, [ctx[r] EXCEPT !.temp_dir = <<d>>], "save_ref")
       \/ /\ UNCHANGED upload_folder
          /\ Logged(r, <<"mkdtemp", "raise">>)
          /\ Raise(r, ctx[r], "OSError")

\* FileStorage.save(str(dst)) at lines 63 and 72: the file exists afterwards.
SaveFile(folder, dst) == folder \cup {dst}

\* lines 58-63
SaveRef(r) ==
    /\ pc[r] = "save_ref"
    /\ UNCHANGED req
    /\ LET c == ctx[r]
           ref_filename == secure_filename(c.ref_file.filename)
           ref_path == JoinPath(c.temp_dir, ref_filename)
       IN  IF FilePresent(c.ref_file)
           THEN \/ /\ CanWrite(upload_folder, ref_path)
                   /\ upload_folder' = SaveFile(upload_folder, ref_path)
                   /\ Logged(r, <<"save_ref">>)
                   /\ Goto(r, [c EXCEPT !.ref_path = ref_path], "save_extras")
                \/ /\ UNCHANGED upload_folder
                   /\ Logged(r, <<"save_ref", "raise">>)
                   /\ FinallyRaising(r, [c EXCEPT !.ref_path = ref_path],
                                     "OSError")
           ELSE /\ UNCHANGED <<upload_folder, log>>
                /\ Goto(r, c, "save_extras")

\* A plausible slip: the new path is put at the front of the list.
Collect_front(list, path) == <<path>> \o list

\* line 73: additional_ref_images.append(str(extra_path))
Collect(list, path) == Append(list, path)

\* lines 66-73: one turn of the loop over extra_files, or its end
SaveExtra(r) ==
    /\ pc[r] = "save_extras"
    /\ UNCHANGED req
    /\ LET c == ctx[r]
       IN  IF c.i > Len(c.extra_files)
           THEN /\ UNCHANGED <<upload_folder, log>>
                /\ Goto(r, c, "generate")
           ELSE LET extra == c.extra_files[c.i]
                    extra_filename == secure_filename(extra.filename)
                    extra_path == JoinPath(c.temp_dir, extra_filename)
                IN  IF ~FilePresent(extra)
                    THEN /\ UNCHANGED <<upload_folder, log>>
                         /\ Goto(r, [c EXCEPT !.i = @ + 1], "save_extras")
                    ELSE \/ /\ CanWrite(upload_folder, extra_path)
                            /\ upload_folder' =
                                   SaveFile(upload_folder, extra_path)
                            /\ Logged(r, <<"save_extra">>)
                            /\ Goto(r, [c EXCEPT
                                         !.i = @ + 1,
                                         !.additional_ref_images =
                                             Collect(@, extra_path)],
                                    "save_extras")
                         \/ /\ UNCHANGED upload_folder
                            /\ Logged(r, <<"save_extra", "raise">>)
                            /\ FinallyRaising(r, c, "OSError")

\* lines 76-82: ai_service.generate_image(...) returns an image, returns
\* None, or raises
Generate(r) ==
    /\ pc[r] = "generate"
    /\ UNCHANGED <<upload_folder, req>>
    /\ LET c == [ctx[r] EXCEPT
                   !.gen_prompt = ctx[r].prompt,
                   !.gen_ref = ctx[r].ref_path,
                   !.gen_extra = ctx[r].additional_ref_images,
                   !.gen_extra_none = (ctx[r].additional_ref_images = <<>>)]
       IN  \/ /\ Logged(r, <<"generate">>)
              /\ \E image \in {"image", "None"} :
                    Goto(r, [c EXCEPT !.image = image], "check_image")
           \/ /\ Logged(r, <<"generate", "raise">>)
              /\ FinallyRaising(r, c, "AIServiceError")

\* A plausible slip: a missing image is answered by asking again.
CheckImage_retry(r) ==
    /\ pc[r] = "check_image"
    /\ UNCHANGED <<upload_folder, req, log>>
    /\ IF ImageMissing(ctx[r].image)
       THEN Goto(r, ctx[r], "generate")
       ELSE Goto(r, ctx[r], "save_material")

\* lines 84-85
CheckImage(r) ==
    /\ pc[r] = "check_image"
    /\ UNCHANGED <<upload_folder, req, log>>
    /\ IF ImageMissing(ctx[r].image)
       THEN FinallyReturning(r, ctx[r],
                error_response("AI_SERVICE_ERROR", "Failed to generate image",
                               503))
       ELSE Goto(r, ctx[r], "save_material")

\* lines 88-92: file_service.save_material_image(image, project_id)
SaveMaterial(r) ==
    /\ pc[r] = "save_material"
    /\ UNCHANGED <<upload_folder, req>>
    /\ \/ /\ Logged(r, <<"save_material">>)
          /\ \E n \in MaterialNames :
                Goto(r, [ctx[r] EXCEPT
                           !.relative_path =
                               <<req[r].project_id, "materials", n>>],
                     "get_file_url")
       \/ /\ Logged(r, <<"save_material", "raise">>)
          /\ FinallyRaising(r, ctx[r], "StorageError")

\* line 95
GetFileUrl(r) ==
    /\ pc[r] = "get_file_url"
    /\ UNCHANGED <<upload_folder, req>>
    /\ \/ /\ Logged(r, <<"get_file_url">>)
          /\ Goto(r, [ctx[r] EXCEPT
                        !.image_url =
                            get_file_url(req[r].project_id, "materials",
                                         PathName(ctx[r].relative_path))],
                  "commit")
       \/ /\ Logged(r, <<"get_file_url", "raise">>)
          /\ FinallyRaising(r, ctx[r], "StorageError")

\* lines 98-104: the no-op touch of updated_at, db.session.commit(), and
\* the return of the success response
Commit(r) ==
    /\ pc[r] = "commit"
    /\ UNCHANGED <<upload_folder, req>>
    /\ \/ /\ Logged(r, <<"commit">>)
          /\ FinallyReturning(r, ctx[r],
                 success_response(ctx[r].image_url, ctx[r].relative_path))
       \/ /\ Logged(r, <<"commit", "raise">>)
          /\ FinallyRaising(r, ctx[r], "OperationalError")

\* Control leaves the finally block: the pending return completes, or the
\* propagating exception reaches line 110.
LeaveFinally(r) ==
    IF ctx[r].pending = "return"
    THEN Return(r, ctx[r].retval) /\ UNCHANGED ctx
    ELSE /\ pc' = [pc EXCEPT ![r] = "except"]
         /\ UNCHANGED <<ctx, response>>

\* line 107: if temp_dir.exists()
Finally(r) ==
    /\ pc[r] = "finally"
    /\ UNCHANGED <<upload_folder, req>>
    /\ Logged(r, <<"exists">>)
    /\ IF ctx[r].temp_dir \in upload_folder
       THEN /\ pc' = [pc EXCEPT ![r] = "rmtree"]
            /\ UNCHANGED <<ctx, response>>
       ELSE LeaveFinally(r)

\* line 108: shutil.rmtree(temp_dir, ignore_errors=True), on a file system
\* that lets the owner of a directory remove it
Rmtree(r) ==
    /\ pc[r] = "rmtree"
    /\ upload_folder' = rmtree(upload_folder, ctx[r].temp_dir)
    /\ Logged(r, <<"rmtree">>)
    /\ UNCHANGED req
    /\ LeaveFinally(r)

\* A plausible slip: the 503 is built without rolling back.
Except_without_rollback(r) ==
    /\ pc[r] = "except"
    /\ UNCHANGED <<upload_folder, req, ctx, log>>
    /\ Return(r, error_response("AI_SERVICE_ERROR", ctx[r].e, 503))

\* lines 110-112: db.session.rollback(), then the 503 response carrying
\* str(e); a rollback that raises leaves the handler with no response
Except(r) ==
    /\ pc[r] = "except"
    /\ UNCHANGED <<upload_folder, req, ctx>>
    /\ \/ /\ Logged(r, <<"rollback">>)
          /\ Return(r, error_response("AI_SERVICE_ERROR", ctx[r].e, 503))
       \/ /\ Logged(r, <<"rollback", "raise">>)
          /\ pc' = [pc EXCEPT ![r] = "raised"]
          /\ UNCHANGED response

\* The response has been sent (or the framework has answered for the
\* handler): the unit is free for the next request.
Release(r) ==
    /\ pc[r] \in {"responded", "raised"}
    /\ pc' = [pc EXCEPT ![r] = "idle"]
    /\ req' = [req EXCEPT ![r] = NoRequest]
    /\ ctx' = [ctx EXCEPT ![r] = NoCtx]
    /\ log' = [log EXCEPT ![r] = <<>>]
    /\ response' = [response EXCEPT ![r] = NoResponse]
    /\ UNCHANGED upload_folder

Handle(r) ==
    \/ Lookup(r)
    \/ Parse(r)
    \/ Validate(r)
    \/ InitServices(r)
    \/ Mkdtemp(r)
    \/ SaveRef(r)
    \/ SaveExtra(r)
    \/ Generate(r)
    \/ CheckImage(r)
    \/ SaveMaterial(r)
    \/ GetFileUrl(r)
    \/ Commit(r)
    \/ Finally(r)
    \/ Rmtree(r)
    \/ Except(r)
    \/ Release(r)

\* Each call is handled on its own: one request in flight.
Next == \E r \in Reqs : Arrive(r) \/ Handle(r)

Spec == Init /\ [][Next]_vars

\* Several requests in flight at the same time.
NextConcurrent == \E r \in Reqs : ArriveConcurrent(r) \/ Handle(r)

ConcurrentSpec == Init /\ [][NextConcurrent]_vars

\* The requests of the runs in which the file system misbehaves: multipart
\* requests with a prompt, with and without uploads.
FaultRequests ==
    {[project_id |-> "p1", is_json |-> FALSE, json |-> NoJson,
      form_prompt |-> Field(<<"a">>), ref_image |-> g, extra_images |-> e] :
        g \in {NoFile, Upload(<<"a">>)},
        e \in {<<>>, <<Upload(<<"b">>)>>}}

ArriveFault(r) ==
    /\ \A o \in Reqs : pc[o] = "idle"
    /\ \E q \in FaultRequests : Receive(r, q)

\* Something outside the handler (an operator, a tmp cleaner) removes a
\* directory under UPLOAD_FOLDER and all below it.
ExternalRemove(d) ==
    /\ <<d>> \in upload_folder
    /\ upload_folder' = rmtree(upload_folder, <<d>>)
    /\ UNCHANGED <<pc, req, ctx, log, response>>

\* A plausible slip: ignore_errors is left out, and the failure of the
\* removal replaces what was pending.
RmtreeFails_raising(r) ==
    /\ pc[r] = "rmtree"
    /\ Logged(r, <<"rmtree", "raise">>)
    /\ UNCHANGED <<upload_folder, req, response>>
    /\ pc' = [pc EXCEPT ![r] = "except"]
    /\ SetCtx(r, [ctx[r] EXCEPT !.pending = "raise", !.e = "OSError"])

\* line 108 on a file system that refuses the removal: with
\* ignore_errors=True shutil.rmtree returns and the tree is left.
RmtreeFails(r) ==
    /\ pc[r] = "rmtree"
    /\ Logged(r, <<"rmtree">>)
    /\ UNCHANGED <<upload_folder, req>>
    /\ LeaveFinally(r)

\* One request in flight, on a file system that can lose a workspace or
\* refuse its removal.
FaultNext ==
    \/ \E r \in Reqs : ArriveFault(r) \/ Handle(r) \/ RmtreeFails(r)
    \/ \E d \in DirNames : ExternalRemove(d)

FaultSpec == Init /\ [][FaultNext]_vars

\* ------------------------------------------------------ reading the history

Has(r, ev) == \E i \in 1..Len(log[r]) : log[r][i] = ev

Count(r, ev) == Cardinality({i \in 1..Len(log[r]) : log[r][i] = ev})

\* The call ev was made and raised.
Raised(r, ev) ==
    \E i \in 1..(Len(log[r]) - 1) : log[r][i] = ev /\ log[r][i + 1] = "raise"

\* The call ev was made and returned.
Returned(r, ev) ==
    \E i \in 1..Len(log[r]) :
        /\ log[r][i] = ev
        /\ (i = Len(log[r]) \/ log[r][i + 1] # "raise")

\* Every ev1 in the history comes before every ev2.
Before(r, ev1, ev2) ==
    \A i, j \in 1..Len(log[r]) :
        (log[r][i] = ev1 /\ log[r][j] = ev2) => i < j

\* The handler has left: it returned a response, or an exception escaped it.
Exited(r) == pc[r] \in {"responded", "raised"}

\* The request's workspace was created.
Created(r) == ctx[r].temp_dir # <<>>

AllSpace(s) == \A i \in 1..Len(s) : s[i] \in WS

\* The request carries a prompt that is text, or carries none (which both
\* request shapes read as the empty text).
TextPrompt(q) ==
    q.is_json => q.json.kind \in {"falsy", "no_prompt", "string_prompt"}

\* The text of the prompt as the client sent it.
SentPrompt(q) ==
    IF q.is_json THEN q.json.prompt
    ELSE IF q.form_prompt.has THEN q.form_prompt.s ELSE <<>>

\* p is raw without its leading and trailing whitespace, and nothing else
\* is changed.
IsTrimOf(p, raw) ==
    /\ p # <<>>
    /\ p[1] \notin WS
    /\ p[Len(p)] \notin WS
    /\ \E k \in 0..Len(raw) :
          /\ k + Len(p) <= Len(raw)
          /\ SubSeq(raw, k + 1, k + Len(p)) = p
          /\ AllSpace(SubSeq(raw, 1, k))
          /\ AllSpace(SubSeq(raw, k + Len(p) + 1, Len(raw)))

\* ------------------------------------------------------------------ claims

C2_BlankPromptIs400 ==
    \A r \in Reqs :
        (/\ ctx[r].project = "found"
         /\ TextPrompt(req[r])
         /\ AllSpace(SentPrompt(req[r])))
        => /\ pc[r] \in {"parse", "validate", "responded"}
           /\ pc[r] = "responded" =>
                 response[r] = bad_request("prompt is required")
           /\ ~Created(r)
           /\ ~Has(r, "mkdtemp")
           /\ ~Has(r, "generate")

\* C2 witness: a multipart request with a blank prompt and a reference image
\* has been answered.
C2_Witness ==
    \E r \in Reqs :
        /\ pc[r] = "responded"
        /\ ctx[r].project = "found"
        /\ ~req[r].is_json
        /\ req[r].form_prompt = Field(<<" ">>)
        /\ FilePresent(req[r].ref_image)
        /\ response[r].status = 400

\* C3: a request whose project id the lookup does not find is answered 404
\* whatever its shape and prompt; no workspace is created and neither
\* generate_image nor save_material_image is called.
C3_UnknownProjectIs404 ==
    \A r \in Reqs :
        (Returned(r, "lookup") /\ req[r].project_id \notin Projects)
        => /\ pc[r] = "responded"
           /\ response[r] = not_found("Project")
           /\ ~Created(r)
           /\ log[r] = <<"lookup">>

\* C3 witness: a JSON request with a null prompt to an unknown project has
\* been answered.
C3_Witness ==
    \E r \in Reqs :
        /\ pc[r] = "responded"
        /\ req[r].project_id \notin Projects
        /\ req[r].json.kind = "null_prompt"
        /\ response[r].status = 404

\* C4: every 503 response is preceded by a rollback of the transaction.
C4_Every503RolledBack ==
    \A r \in Reqs :
        (pc[r] = "responded" /\ response[r].status = 503)
        => Has(r, "rollback")

C6_ParseFailsOnlyWith400 ==
    \A r \in Reqs :
        (pc[r] = "responded" /\ ctx[r].project = "found" /\ ~Has(r, "init"))
        => response[r].status = 400

\* C7: whenever generate_image is called, the prompt passed is not empty
\* and is the request's prompt with its leading and trailing whitespace
\* removed and nothing else changed.
C7_PromptPassedTrimmed ==
    \A r \in Reqs :
        Has(r, "generate")
        => /\ TextPrompt(req[r])
           /\ IsTrimOf(ctx[r].gen_prompt, SentPrompt(req[r]))

\* C7 witness: generate_image was called for a prompt sent with whitespace
\* on both sides.
C7_Witness ==
    \E r \in Reqs :
        /\ Has(r, "generate")
        /\ SentPrompt(req[r]) = <<" ", "a", "\t">>
        /\ ctx[r].gen_prompt = <<"a">>

\* Synthesis was called and returned no image.
NoImage(r) == Returned(r, "generate") /\ ctx[r].image = "None"

Holds(r) == Created(r) /\ ~Has(r, "rmtree") /\ ~Exited(r)

\* The paths at or below dir.
Under(folder, dir) ==
    {p \in folder : Len(p) >= Len(dir) /\ SubSeq(p, 1, Len(dir)) = dir}

\* The step was not taken by request r.
Unmoved(r) == pc'[r] = pc[r] /\ ctx'[r] = ctx[r] /\ log'[r] = log[r]

C9_Distinct ==
    \A r, q \in Reqs :
        (r # q /\ Holds(r) /\ Holds(q)) => ctx[r].temp_dir # ctx[q].temp_dir

C9_Untouched ==
    \A q \in Reqs :
        (Holds(q) /\ Unmoved(q))
        => Under(upload_folder', ctx[q].temp_dir)
               = Under(upload_folder, ctx[q].temp_dir)

\* C9: with several requests in flight, no two of them hold the same
\* workspace directory, and no step of one request (its cleanup included)
\* removes or changes the directory or the files of another.
C9_WorkspacesIsolated == []C9_Distinct /\ [][C9_Untouched]_vars

\* C9 witness: one request has removed its workspace, files included, while
\* another still holds its own with its reference image in it.
C9_Witness ==
    \E r, q \in Reqs :
        /\ r # q
        /\ Has(r, "save_ref")
        /\ Has(r, "rmtree")
        /\ Holds(q)
        /\ ctx[q].ref_path # <<>>
        /\ ctx[q].ref_path \in upload_folder

\* Every exception is followed by a rollback.
RaisesRolledBack(r) ==
    \A i \in 1..Len(log[r]) :
        log[r][i] = "raise"
        => \E j \in (i + 1)..Len(log[r]) : log[r][j] = "rollback"

\* C10: a commit happens at most once per request, only after the image was
\* saved and its URL derived, and only on the path that ends in 200; a 200
\* response has exactly one commit and no rollback before it; and when a
\* response is returned, every exception raised was followed by a rollback.
C10_CommitAndRollback ==
    \A r \in Reqs :
        /\ Count(r, "commit") <= 1
        /\ Has(r, "commit")
             => /\ Returned(r, "save_material")
                /\ Returned(r, "get_file_url")
                /\ Before(r, "save_material", "get_file_url")
                /\ Before(r, "get_file_url", "commit")
        /\ (pc[r] = "responded" /\ response[r].status = 200)
             => /\ Count(r, "commit") = 1
                /\ Returned(r, "commit")
                /\ ~Has(r, "rollback")
                /\ ~Has(r, "raise")
        /\ (pc[r] = "responded" /\ Returned(r, "commit"))
             => response[r].status = 200
        /\ pc[r] = "responded" => RaisesRolledBack(r)

\* C10 witness: a request on which the commit raised has been answered.
C10_Witness ==
    \E r \in Reqs :
        /\ pc[r] = "responded"
        /\ Raised(r, "commit")
        /\ Has(r, "rollback")

\* The upload was sent with a filename that is not empty.
PresentUpload(f) == f.has /\ Len(f.filename) > 0

\* path is a proper descendant of dir: below it, and not dir itself.
StrictlyInside(path, dir) ==
    /\ Len(path) > Len(dir)
    /\ SubSeq(path, 1, Len(dir)) = dir

\* C11: every upload with a non-empty filename, whatever the filename, is
\* stored at a path strictly inside the request's workspace directory: the
\* path the handler hands to save() is a proper descendant of temp_dir.
C11_StoredStrictlyInside ==
    \A r \in Reqs :
        /\ ctx[r].ref_path # <<>>
             => StrictlyInside(ctx[r].ref_path, ctx[r].temp_dir)
        /\ \A k \in 1..Len(ctx[r].additional_ref_images) :
             StrictlyInside(ctx[r].additional_ref_images[k], ctx[r].temp_dir)

\* The uploads under 'extra_images' that count as present, in input order.
PresentExtras(q) == SelectSeq(q.extra_images, PresentUpload)

\* How many uploads of the request count as present.
NumPresentRef(q) == IF PresentUpload(q.ref_image) THEN 1 ELSE 0
NumPresent(q) == NumPresentRef(q) + Len(PresentExtras(q))

\* Where the present extra files of request r are stored, in input order.
ExtraPaths(r) ==
    [k \in 1..Len(PresentExtras(req[r])) |->
        JoinPath(ctx[r].temp_dir,
                 secure_filename(PresentExtras(req[r])[k].filename))]

\* C12: generate_image is called only after every present reference file
\* has been written into the workspace; the additional paths passed are the
\* stored paths of the present 'extra_images' files in input order; and if
\* writing any file fails, generate_image is not called.
C12_FilesWrittenBeforeSynthesis ==
    \A r \in Reqs :
        /\ Has(r, "generate")
             => /\ Count(r, "save_ref") = NumPresentRef(req[r])
                /\ Count(r, "save_extra") = Len(PresentExtras(req[r]))
                /\ Before(r, "save_ref", "generate")
                /\ Before(r, "save_extra", "generate")
                /\ ctx[r].gen_extra = ExtraPaths(r)
                /\ ~Has(r, "rmtree")
                     => /\ \A k \in 1..Len(ctx[r].gen_extra) :
                             ctx[r].gen_extra[k] \in upload_folder
                        /\ ctx[r].gen_ref # <<>>
                             => ctx[r].gen_ref \in upload_folder
        /\ (Raised(r, "save_ref") \/ Raised(r, "save_extra"))
             => ~Has(r, "generate")

\* C12 witness: a request with two extra files stored at two paths has been
\* answered after synthesis, its workspace removed.
C12_Witness ==
    \E r \in Reqs :
        /\ pc[r] = "responded"
        /\ Has(r, "generate")
        /\ Len(ctx[r].gen_extra) = 2
        /\ ctx[r].gen_extra[1] # ctx[r].gen_extra[2]
        /\ Has(r, "rmtree")

\* C13: a file input is present exactly when its field is provided and its
\* filename is not empty.  Entries that are absent or have an empty filename
\* are never written and cause no error; generate_image gets a primary
\* reference path iff the primary file is present, gets None for the
\* additional references iff no additional file is present, and gets
\* neither for a JSON request.
C13_PresenceDecidesArguments ==
    \A r \in Reqs :
        /\ Count(r, "save_ref") <= NumPresentRef(req[r])
        /\ Count(r, "save_extra") <= Len(PresentExtras(req[r]))
        /\ Cardinality({p \in upload_folder :
                          StrictlyInside(p, ctx[r].temp_dir) /\ Created(r)})
             <= NumPresent(req[r])
        /\ Has(r, "generate")
             => /\ ctx[r].gen_ref # <<>> <=> PresentUpload(req[r].ref_image)
                /\ ctx[r].gen_extra_none <=> Len(PresentExtras(req[r])) = 0
                /\ ctx[r].gen_extra_none <=> ctx[r].gen_extra = <<>>
                /\ req[r].is_json
                     => (ctx[r].gen_ref = <<>> /\ ctx[r].gen_extra_none)

\* C13 witness: generate_image was called for a request whose primary file
\* and first extra file have empty filenames and whose second extra file is
\* present.
C13_Witness ==
    \E r \in Reqs :
        /\ Has(r, "generate")
        /\ req[r].ref_image = Upload(<<>>)
        /\ Len(req[r].extra_images) = 2
        /\ req[r].extra_images[1] = Upload(<<>>)
        /\ PresentUpload(req[r].extra_images[2])
        /\ ctx[r].gen_ref = <<>>
        /\ Len(ctx[r].gen_extra) = 1
        /\ ~ctx[r].gen_extra_none

\* C14: on a successful run the relative_path of the response is the path
\* save_material_image returned for this project, and image_url is what
\* get_file_url gives for (project_id, 'materials', name), name being the
\* last segment of that relative_path.
C14_ResponseNamesSavedImage ==
    \A r \in Reqs :
        (pc[r] = "responded" /\ response[r].status = 200)
        => LET rel == response[r].relative_path
           IN  /\ rel = ctx[r].relative_path
               /\ \E n \in MaterialNames :
                     rel = <<req[r].project_id, "materials", n>>
               /\ response[r].image_url =
                     get_file_url(req[r].project_id, "materials",
                                  rel[Len(rel)])

\* C14 witness: a request whose image was stored as m2.png has been
\* answered 200.
C14_Witness ==
    \E r \in Reqs :
        /\ pc[r] = "responded"
        /\ response[r].status = 200
        /\ response[r].relative_path = <<"p1", "materials", "m2.png">>

\* C15: every request ends with a response whose status is 200, 400, 404 or
\* 503, whatever the collaborators do, a failing rollback included.
C15_AlwaysCanonicalResponse ==
    \A r \in Reqs :
        Exited(r)
        => /\ pc[r] = "responded"
           /\ response[r].status \in {200, 400, 404, 503}

\* C16: within one request generate_image is called at most once and
\* save_material_image at most once; after a synthesis that returned no
\* image or raised, neither is called again.
C16_NoRetry ==
    \A r \in Reqs :
        /\ Count(r, "generate") <= 1
        /\ Count(r, "save_material") <= 1
        /\ (NoImage(r) \/ Raised(r, "generate"))
             => /\ ~Has(r, "save_material")
                /\ log[r][Len(log[r])] \notin {"generate", "raise"}
                     => pc[r] \in {"finally", "rmtree", "except",
                                   "responded", "raised"}

\* C16 witness: a request whose synthesis raised has been answered.
C16_Witness ==
    \E r \in Reqs :
        /\ pc[r] = "responded"
        /\ Raised(r, "generate")
        /\ response[r].status = 503

\* The cleanup steps of lines 105-108 leave what was pending as it was: the
\* locals are untouched, a pending return value is the response, and a
\* propagating exception goes on to line 110.
C17_PendingKept ==
    \A r \in Reqs :
        pc[r] \in {"finally", "rmtree"}
        => /\ ctx'[r] = ctx[r]
           /\ response'[r] = IF pc'[r] = "responded"
                               THEN ctx[r].retval
                               ELSE response[r]
           /\ pc'[r] \in {pc[r], "rmtree",
                           IF ctx[r].pending = "return"
                           THEN "responded" ELSE "except"}

\* The workspace of a request is released once: the check of line 107 is
\* made once when a workspace was created and never otherwise, the removal
\* at most once, and neither raises.
C17_ReleasedOnce ==
    \A r \in Reqs :
        /\ Count(r, "exists") <= 1
        /\ Count(r, "rmtree") <= 1
        /\ Has(r, "rmtree") => Has(r, "exists")
        /\ Has(r, "exists") => Created(r)
        /\ (Exited(r) /\ Created(r)) => Has(r, "exists")
        /\ ~Raised(r, "exists")
        /\ ~Raised(r, "rmtree")
        /\ (pc[r] = "responded" /\ Created(r))
             => response[r] =
                    IF ctx[r].pending = "return"
                    THEN ctx[r].retval
                    ELSE error_response("AI_SERVICE_ERROR", ctx[r].e, 503)

\* C17: each workspace acquisition is paired with exactly one release, and
\* the release neither raises nor changes the pending response or the
\* propagating exception, also when the directory is already gone or its
\* removal fails.
C17_ReleaseOnceAndQuiet == []C17_ReleasedOnce /\ [][C17_PendingKept]_vars

\* C17 witness: a request whose workspace was gone before line 107 has been
\* answered 200 without a removal, while a directory whose removal failed
\* earlier is still there.
C17_Witness ==
    \E r \in Reqs :
        /\ pc[r] = "responded"
        /\ Created(r)
        /\ Has(r, "exists")
        /\ ~Has(r, "rmtree")
        /\ response[r].status = 200
        /\ \E d \in DirNames : <<d>> \in upload_folder

\* C18: when generate_image is invoked the workspace holds as many files as
\* there were present uploads, the additional paths passed contain no
\* duplicates, and none of them is the primary reference path, whatever
\* the declared filenames.
C18_OwnPathPerUpload ==
    \A r \in Reqs :
        pc[r] = "check_image"
        => /\ Cardinality({p \in upload_folder :
                              StrictlyInside(p, ctx[r].temp_dir)})
                = NumPresent(req[r])
           /\ \A j, k \in 1..Len(ctx[r].gen_extra) :
                 j # k => ctx[r].gen_extra[j] # ctx[r].gen_extra[k]
           /\ \A k \in 1..Len(ctx[r].gen_extra) :
                 ctx[r].gen_extra[k] # ctx[r].gen_ref

\* C19: a request whose save_material_image call succeeded is answered 200;
\* a request answered 400, 404 or 503 has left no generated image in
\* storage, also when get_file_url or the commit fails after the save.
C19_SavedOnlyWith200 ==
    \A r \in Reqs :
        pc[r] = "responded"
        => /\ Returned(r, "save_material") => response[r].status = 200
           /\ response[r].status \in {400, 404, 503}
                => ~Returned(r, "save_material")

====
